---- MODULE Spec2Model ----
(***************************************************************************)
(* Model of habitat_sim/utils/data/dataextractor.py: the ImageExtractor    *)
(* dataset facade (construction, __len__, __getitem__, set_mode, close)    *)
(* over an external simulator of which only the loaded scene, the agent    *)
(* state and the released flag are kept.                                   *)
(***************************************************************************)
EXTENDS Integers, Sequences, FiniteSets, TLC

VARIABLES pc, scene_filepaths, cur_fp, has_sim, sim_scene, sim_closed,
          agent_state, poses, train, test, mode, mode_to_data,
          instance_id_to_name, output, prev_ok_fp, last

vars == <<pc, scene_filepaths, cur_fp, has_sim, sim_scene, sim_closed,
          agent_state, poses, train, test, mode, mode_to_data,
          instance_id_to_name, output, prev_ok_fp, last>>

(* ---------------------------- bounds ---------------------------------- *)
MaxPoses == 2
MaxIdx == 3
MaxSplitPoses == 90

(* ------------------- Python values and strings ------------------------ *)
None == "None"

\* Python strings that are case-converted are kept as sequences of characters.
FULL == <<"f", "u", "l", "l">>
TRAIN == <<"t", "r", "a", "i", "n">>
TEST == <<"t", "e", "s", "t">>
\* the None key of mode_to_data (no string equals it)
NoneKey == <<"<None>">>

\* str.lower() on one character
LowerChar(c) ==
  CASE c = "A" -> "a" [] c = "B" -> "b" [] c = "E" -> "e" [] c = "F" -> "f"
    [] c = "G" -> "g" [] c = "I" -> "i" [] c = "L" -> "l" [] c = "N" -> "n"
    [] c = "O" -> "o" [] c = "R" -> "r" [] c = "S" -> "s" [] c = "T" -> "t"
    [] c = "U" -> "u" [] OTHER -> c

\* a set_mode that compares the string as given
Lower_AsGiven(s) == s

\* str.lower()
Lower(s) == [i \in DOMAIN s |-> LowerChar(s[i])]

(* ------------- IEEE-754 double arithmetic of _handle_split ------------ *)
\* Unbounded naturals are little-endian sequences of limbs in base 2^LimbBits.
MantBits == 53
LimbBits == 13
Base == 2 ^ LimbBits
DivShift == 5 * LimbBits

RECURSIVE Limbs(_)
Limbs(n) == IF n = 0 THEN <<>> ELSE <<n % Base>> \o Limbs(n \div Base)

RECURSIVE LimbsToNat(_)
LimbsToNat(b) == IF b = <<>> THEN 0 ELSE b[1] + Base * LimbsToNat(Tail(b))

\* b * m + c for small naturals m, c
RECURSIVE MulCarry(_, _, _)
MulCarry(b, m, c) ==
  IF b = <<>> THEN Limbs(c)
  ELSE LET t == b[1] * m + c
       IN  <<t % Base>> \o MulCarry(Tail(b), m, t \div Base)

\* quotient and remainder of b by a small natural d
RECURSIVE DivRem(_, _)
DivRem(b, d) ==
  IF b = <<>> THEN [q |-> <<>>, r |-> 0]
  ELSE LET hi == DivRem(Tail(b), d)
           t == hi.r * Base + b[1]
       IN  [q |-> <<t \div d>> \o hi.q, r |-> t % d]

RECURSIVE Strip(_)
Strip(b) ==
  IF b = <<>> THEN <<>>
  ELSE IF b[Len(b)] = 0 THEN Strip(SubSeq(b, 1, Len(b) - 1)) ELSE b

\* number of significant bits of a stripped natural
BitLen(b) ==
  IF b = <<>> THEN 0
  ELSE LimbBits * (Len(b) - 1)
       + Cardinality({k \in 0..(LimbBits - 1) : 2 ^ k <= b[Len(b)]})

\* bit i (from 0) of b
Bit(b, i) ==
  IF i \div LimbBits + 1 > Len(b) THEN 0
  ELSE (b[i \div LimbBits + 1] \div (2 ^ (i % LimbBits))) % 2

\* whether the s lowest bits of b are all zero
LowBitsZero(b, s) ==
  \A i \in 0..(s - 1) : Bit(b, i) = 0

ShiftLeft(b, s) ==
  MulCarry([i \in 1..(s \div LimbBits) |-> 0] \o b, 2 ^ (s % LimbBits), 0)

ShiftRight(b, s) ==
  IF s \div LimbBits >= Len(b) THEN <<>>
  ELSE Strip(DivRem(SubSeq(b, s \div LimbBits + 1, Len(b)),
                    2 ^ (s % LimbBits)).q)

\* round-to-nearest-even of b (plus a sticky remainder) to MantBits bits
RoundNearestEven(b, sticky) ==
  IF BitLen(b) <= MantBits THEN [m |-> b, drop |-> 0]
  ELSE LET drop == BitLen(b) - MantBits
           kept == ShiftRight(b, drop)
           rest == sticky \/ ~LowBitsZero(b, drop - 1)
           up == Bit(b, drop - 1) = 1 /\ (rest \/ Bit(kept, 0) = 1)
       IN  [m |-> IF up THEN Strip(MulCarry(kept, 1, 1)) ELSE kept,
            drop |-> drop]

Abs(x) == IF x < 0 THEN -x ELSE x
Sign(x) == IF x < 0 THEN -1 ELSE 1

\* a / d in Python for ints a, d (d > 0): the correctly rounded double,
\* kept as s * m * 2^e
FloatDiv(a, d) ==
  IF a = 0 THEN [s |-> 1, m |-> <<>>, e |-> 0]
  ELSE LET qr == DivRem(ShiftLeft(Limbs(Abs(a)), DivShift), d)
           r == RoundNearestEven(Strip(qr.q), qr.r # 0)
       IN  [s |-> Sign(a), m |-> r.m, e |-> r.drop - DivShift]

\* x * n in Python for a double x and an int n >= 0
FloatMulNat(x, n) ==
  IF n = 0 \/ x.m = <<>> THEN [s |-> 1, m |-> <<>>, e |-> 0]
  ELSE LET r == RoundNearestEven(Strip(MulCarry(x.m, n, 0)), FALSE)
       IN  [s |-> x.s, m |-> r.m, e |-> x.e + r.drop]

\* int(x): truncation toward zero
FloatToInt(x) ==
  IF x.m = <<>> THEN 0
  ELSE IF x.e >= 0 THEN x.s * LimbsToNat(ShiftLeft(x.m, x.e))
  ELSE x.s * LimbsToNat(ShiftRight(x.m, -x.e))

(* --------------------------- list slicing ----------------------------- *)
\* the bound of a Python list slice: negative counts from the end, clamped
ClampIdx(k, n) ==
  IF k < 0 THEN (IF n + k < 0 THEN 0 ELSE n + k)
  ELSE IF k > n THEN n ELSE k

\* s[:k]
SliceTo(s, k) == SubSeq(s, 1, ClampIdx(k, Len(s)))

\* s[k:]
SliceFrom(s, k) == SubSeq(s, ClampIdx(k, Len(s)) + 1, Len(s))

\* int((train / 100) * num_poses)
last_train_idx(split, num_poses) ==
  FloatToInt(FloatMulNat(FloatDiv(split[1], 100), num_poses))

\* ImageExtractor._handle_split
_handle_split(split, ps) ==
  LET k == last_train_idx(split, Len(ps))
  IN  <<SliceTo(ps, k), SliceFrom(ps, k)>>

(* ------------------- collaborators of the facade ---------------------- *)
\* os.path.isdir on the paths of the modelled file system
isdir(p) == p \in {"scenes", "empty"}

\* search_dir_tree_for_ext(filepath, ".glb")
search_dir_tree_for_ext(p) ==
  IF p = "scenes" THEN <<"a.glb", "b.glb">> ELSE <<>>

Sensors == {"color_sensor", "depth_sensor", "semantic_sensor"}

\* make_config_default_settings(scene_filepath, img_size): the module calls it
\* and does not define it; it is the configuration builder for one scene path
make_config_default_settings(fp) == [scene |-> fp, sensors |-> Sensors]

\* config_sim(scene_id, img_size): called under this name, defined as the
\* method _config_sim
config_sim(scene_id) == [scene |-> scene_id, sensors |-> Sensors]

\* a None entry of the object list
NullObject == [id |-> <<>>, category |-> None]

\* sim.semantic_scene.objects of a loaded scene
semantic_scene(scene) ==
  CASE scene = "a.glb" ->
         <<[id |-> <<0, 1>>, category |-> "chair"], NullObject,
           [id |-> <<0, 2>>, category |-> None]>>
    [] scene = "b.glb" -> <<[id |-> <<3>>, category |-> "table"]>>
    [] OTHER -> <<>>

\* ImageExtractor._generate_label_map
_generate_label_map(objects) ==
  LET named == {i \in DOMAIN objects :
                  objects[i] # NullObject /\ objects[i].category # None}
      obj_id(i) == objects[i].id[Len(objects[i].id)]
      lastOf(n) == CHOOSE i \in named :
                     obj_id(i) = n /\ \A j \in named : obj_id(j) = n => j <= i
  IN  [n \in {obj_id(i) : i \in named} |-> objects[lastOf(n)].category]

\* PoseExtractor.extract_poses: the pose lists it may return, each pose a
\* tuple (position, rotation, label, scene path), scene by scene
ExtractedPoses(fps) ==
  UNION {{[i \in 1..n |-> <<i, -i, 0, fps[g[i]]>>] :
            g \in {h \in [1..n -> DOMAIN fps] :
                     \A i \in 1..n, j \in 1..n : i < j => h[i] <= h[j]}}
         : n \in 0..MaxPoses}

\* np.random.shuffle: the orders it may leave the list in
Shuffles(ps) ==
  {[i \in 1..Len(ps) |-> ps[f[i]]] : f \in Permutations(1..Len(ps))}

\* a mapping with the depth and semantic sensors exchanged
out_name_to_sensor_name_Exchanged ==
  [n \in {"rgba", "depth", "semantic"} |->
     CASE n = "rgba" -> "color_sensor"
       [] n = "depth" -> "semantic_sensor"
       [] n = "semantic" -> "depth_sensor"]

out_name_to_sensor_name ==
  [n \in {"rgba", "depth", "semantic"} |->
     CASE n = "rgba" -> "color_sensor"
       [] n = "depth" -> "depth_sensor"
       [] n = "semantic" -> "semantic_sensor"]

\* sim.get_sensor_observations(): what each sensor renders from the loaded
\* scene at the agent's state
get_sensor_observations(scene, agent) ==
  [sn \in Sensors |-> [sensor |-> sn, scene |-> scene, state |-> agent]]

(* ----------------------- constructor arguments ------------------------ *)
Filepaths == {"a.glb", "scenes", "empty"}
\* the scene loaded in the caller's simulator, None when no simulator is given
SimArgs == {None, "c.glb"}
Splits == {<<70, 30>>, <<100, 0>>, <<60, 30>>}
Outputs == {<<"rgba", "depth", "semantic">>, <<"semantic", "bogus">>}
PercentSplits == {<<a, 100 - a>> : a \in 0..100} \cup {<<60, 30>>}

\* a constructor that does not check the split pair
SplitValid_Unchecked(split) == TRUE

\* the check of the split pair
SplitValid(split) == split[1] + split[2] = 100

\* a mode_to_data dict with the partitions under each other's name
ModeToData_Swapped(full, tr, te) ==
  (FULL :> full) @@ (TRAIN :> te) @@ (TEST :> tr) @@ (NoneKey :> full)

\* the mode_to_data dict
ModeToData(full, tr, te) ==
  (FULL :> full) @@ (TRAIN :> tr) @@ (TEST :> te) @@ (NoneKey :> full)

\* the scene a sequence of simulator calls leaves loaded
LoadedAfter(calls) ==
  LET loads == {i \in DOMAIN calls : calls[i][1] \in {"Simulator", "reconfigure"}}
  IN  IF loads = {} THEN None
      ELSE calls[CHOOSE i \in loads : \A j \in loads : j <= i][2]

Init ==
  /\ pc = "new"
  /\ scene_filepaths = <<>>
  /\ cur_fp = None
  /\ has_sim = FALSE
  /\ sim_scene = None
  /\ sim_closed = FALSE
  /\ agent_state = None
  /\ poses = <<>>
  /\ train = <<>>
  /\ test = <<>>
  /\ mode = <<>>
  /\ mode_to_data = <<>>
  /\ instance_id_to_name = <<>>
  /\ output = <<>>
  /\ prev_ok_fp = None
  /\ last = [op |-> <<"none">>, status |-> "ok", result |-> None,
             log |-> <<>>]

\* a precomputation that leaves the simulator on the scene it had
precomute_tdv_and_refs_NoReconfigure(fps) == <<>>

\* ImageExtractor.precomute_tdv_and_refs: the reconfigure calls of the loop
\* (the top-down views and reference points it collects are not kept; its res
\* argument, read from the attribute self.res that __init__ never sets, is
\* taken to be pixels_per_meter)
precomute_tdv_and_refs(fps) ==
  [i \in DOMAIN fps |-> <<"reconfigure", make_config_default_settings(fps[i]).scene>>]

\* ImageExtractor.__init__ raising before the object exists
InitRaises(args, status, calls) ==
  /\ pc' = "failed"
  /\ last' = [op |-> <<"__init__">> \o args, status |-> status,
              result |-> None, log |-> calls]
  /\ UNCHANGED <<scene_filepaths, cur_fp, has_sim, sim_scene, sim_closed,
                 agent_state, poses, train, test, mode, mode_to_data,
                 instance_id_to_name, output, prev_ok_fp>>

\* ImageExtractor.__init__
__init__(filepath, sim, shuffle, split, out, shuffled) ==
  LET args == <<filepath, sim, shuffle, split, out>>
      fps == IF isdir(filepath) THEN search_dir_tree_for_ext(filepath)
             ELSE <<filepath>>
      located == IF isdir(filepath) THEN <<<<"search_dir_tree_for_ext", filepath>>>>
                 ELSE <<>>
      first == IF sim = None
               THEN <<"Simulator", make_config_default_settings(fps[1]).scene>>
               ELSE <<"reconfigure", config_sim(sim).scene>>
      calls == located \o <<first>> \o precomute_tdv_and_refs(fps)
                 \o <<<<"extract_poses">>>>
                 \o (IF shuffle THEN <<<<"shuffle">>>> ELSE <<>>)
      loaded == LoadedAfter(calls)
      parts == _handle_split(split, shuffled)
  IN
  /\ pc = "new"
  /\ IF ~SplitValid(split) THEN InitRaises(args, "Exception", <<>>)
     ELSE IF fps = <<>> THEN InitRaises(args, "IndexError", located)
     ELSE
       /\ pc' = "ready"
       /\ scene_filepaths' = fps
       /\ cur_fp' = IF isdir(filepath) THEN None ELSE filepath
       /\ has_sim' = TRUE
       /\ sim_closed' = FALSE
       /\ sim_scene' = loaded
       /\ agent_state' = None
       /\ poses' = shuffled
       /\ train' = parts[1]
       /\ test' = parts[2]
       /\ mode' = FULL
       /\ mode_to_data' = ModeToData(shuffled, parts[1], parts[2])
       /\ instance_id_to_name' = _generate_label_map(semantic_scene(loaded))
       /\ output' = out
       /\ prev_ok_fp' = None
       /\ last' = [op |-> <<"__init__">> \o args, status |-> "ok",
                   result |-> None, log |-> calls]

(* --------------------------- indexed access --------------------------- *)
\* the simulator-side state one scalar access reads and writes
AccessState ==
  [cur_fp |-> cur_fp, sim_scene |-> sim_scene, agent_state |-> agent_state,
   prev_ok_fp |-> prev_ok_fp]

\* the output names, in order, up to the first one without a sensor mapping
UnknownOutputs == {i \in DOMAIN output : output[i] \notin DOMAIN out_name_to_sensor_name}

\* an index taken modulo the length instead of checked
InRange_Wrapped(idx, n) == n > 0

\* whether poses[idx] exists in a list of n poses
InRange(idx, n) == -n <= idx /\ idx < n

\* the position poses[idx] reads: a negative idx counts from the end
Index(idx, n) == (idx % n) + 1

\* a scene switch on every access
SceneDiffers_Always(fp, cur) == TRUE

\* the test of the scene switch
SceneDiffers(fp, cur) == fp # cur

\* ImageExtractor.__getitem__ for a scalar index, from the state st
ScalarAccess(st, idx) ==
  LET mymode == Lower(mode)
      ps == mode_to_data[mymode]
      n == Len(ps)
      inrange == InRange(idx, n)
      pose == ps[Index(idx, n)]
      fp == pose[4]
      switch == SceneDiffers(fp, st.cur_fp)
      new_state == <<pose[1], pose[2]>>
      scene == IF switch THEN make_config_default_settings(fp).scene
               ELSE st.sim_scene
      obs == get_sensor_observations(scene, new_state)
      entry(status, calls, sample) ==
        [idx |-> idx, mode |-> mode, pose |-> IF inrange THEN pose ELSE None,
         cur_fp |-> st.cur_fp, prev_ok_fp |-> st.prev_ok_fp,
         status |-> status, calls |-> calls, sample |-> sample]
      reconf == IF switch THEN <<<<"reconfigure", scene>>>> ELSE <<>>
      calls == reconf \o <<<<"set_state", new_state>>,
                           <<"get_sensor_observations">>>>
      moved == [cur_fp |-> fp, sim_scene |-> scene, agent_state |-> new_state,
                prev_ok_fp |-> st.prev_ok_fp]
  IN
  IF ~inrange THEN [st |-> st, e |-> entry("IndexError", <<>>, None)]
  ELSE IF ~has_sim THEN [st |-> st, e |-> entry("AttributeError", <<>>, None)]
  ELSE IF UnknownOutputs # {}
       THEN [st |-> moved, e |-> entry("KeyError", calls, None)]
  ELSE [st |-> [moved EXCEPT !.prev_ok_fp = fp],
        e |-> entry("ok", calls,
                    [o \in {output[i] : i \in DOMAIN output} |->
                       obs[out_name_to_sensor_name[o]]])]

\* range(start, stop, step) for step # 0
RECURSIVE range(_, _, _)
range(start, stop, step) ==
  IF (step > 0 /\ start >= stop) \/ (step < 0 /\ start <= stop) THEN <<>>
  ELSE <<start>> \o range(start + step, stop, step)

\* the list comprehension of __getitem__ over the indices idxs: one scalar
\* access per index below the partition length, stopping at the first error
RECURSIVE Comprehension(_, _, _)
Comprehension(st, idxs, log) ==
  IF idxs = <<>> THEN [st |-> st, status |-> "ok", log |-> log]
  ELSE IF ~(Head(idxs) < Len(mode_to_data[mode]))
       THEN Comprehension(st, Tail(idxs), log)
  ELSE LET r == ScalarAccess(st, Head(idxs))
       IN  IF r.e.status # "ok"
           THEN [st |-> r.st, status |-> r.e.status, log |-> Append(log, r.e)]
           ELSE Comprehension(r.st, Tail(idxs), Append(log, r.e))

\* the assignments of an access that ended in the state st
Accessed(st) ==
  /\ cur_fp' = st.cur_fp
  /\ sim_scene' = st.sim_scene
  /\ agent_state' = st.agent_state
  /\ prev_ok_fp' = st.prev_ok_fp
  /\ UNCHANGED <<pc, scene_filepaths, has_sim, sim_closed, poses, train, test,
                 mode, mode_to_data, instance_id_to_name, output>>

\* ImageExtractor.__getitem__(idx), idx an int
GetItem(idx) ==
  /\ pc = "ready"
  /\ LET r == ScalarAccess(AccessState, idx)
     IN  /\ Accessed(r.st)
         /\ last' = [op |-> <<"__getitem__", idx>>, status |-> r.e.status,
                     result |-> r.e.sample, log |-> <<r.e>>]

\* a slice field is <<i>> for the int i and NoneArg for None
NoneArg == <<>>

\* ImageExtractor.__getitem__(slice(start, stop, step))
GetSlice(start, stop, step) ==
  /\ pc = "ready"
  /\ LET start0 == IF start = NoneArg THEN 0 ELSE start[1]
         stop0 == IF stop = NoneArg THEN Len(mode_to_data[mode]) ELSE stop[1]
         step0 == IF step = NoneArg THEN 1 ELSE step[1]
         op == <<"__getitem__slice", <<start, stop, step>>>>
     IN  IF step0 = 0
         THEN /\ last' = [op |-> op, status |-> "ValueError",
                          result |-> None, log |-> <<>>]
              /\ Accessed(AccessState)
         ELSE LET r == Comprehension(AccessState,
                                     range(start0, stop0, step0), <<>>)
              IN  /\ Accessed(r.st)
                  /\ last' = [op |-> op, status |-> r.status,
                              result |-> IF r.status = "ok"
                                         THEN [i \in DOMAIN r.log |-> r.log[i].sample]
                                         ELSE None,
                              log |-> r.log]

\* ImageExtractor.__len__
__len__ == Len(mode_to_data[mode])

LenCall ==
  /\ pc = "ready"
  /\ last' = [op |-> <<"__len__">>, status |-> "ok", result |-> __len__,
              log |-> <<>>]
  /\ UNCHANGED <<pc, scene_filepaths, cur_fp, has_sim, sim_scene, sim_closed,
                 agent_state, poses, train, test, mode, mode_to_data,
                 instance_id_to_name, output, prev_ok_fp>>

\* ImageExtractor.set_mode
set_mode(m) ==
  LET mymode == Lower(m)
  IN
  /\ pc = "ready"
  /\ IF mymode \notin {FULL, TRAIN, TEST}
     THEN /\ last' = [op |-> <<"set_mode", m>>, status |-> "Exception",
                      result |-> None, log |-> <<>>]
          /\ UNCHANGED mode
     ELSE /\ last' = [op |-> <<"set_mode", m>>, status |-> "ok",
                      result |-> None, log |-> <<>>]
          /\ mode' = mymode
  /\ UNCHANGED <<pc, scene_filepaths, cur_fp, has_sim, sim_scene, sim_closed,
                 agent_state, poses, train, test, mode_to_data,
                 instance_id_to_name, output, prev_ok_fp>>

\* ImageExtractor.close
close ==
  /\ pc = "ready"
  /\ IF ~has_sim
     THEN /\ last' = [op |-> <<"close">>, status |-> "AttributeError",
                      result |-> None, log |-> <<>>]
          /\ UNCHANGED <<has_sim, sim_closed, sim_scene>>
     ELSE /\ last' = [op |-> <<"close">>, status |-> "ok", result |-> None,
                      log |-> <<<<"close">>>>]
          /\ sim_closed' = TRUE
          /\ sim_scene' = None
          /\ has_sim' = FALSE
  /\ UNCHANGED <<pc, scene_filepaths, cur_fp, agent_state, poses, train, test,
                 mode, mode_to_data, instance_id_to_name, output, prev_ok_fp>>

(* --------------------------- inputs ----------------------------------- *)
Indices == (-MaxIdx)..MaxIdx
\* slices: whole, truncated at the end, stepped, from a negative start,
\* reversed, empty, and with a zero step
Slices ==
  {<<NoneArg, NoneArg, NoneArg>>, <<<<0>>, <<MaxIdx + 1>>, NoneArg>>,
   <<<<1>>, NoneArg, <<2>>>>, <<<<-1>>, NoneArg, NoneArg>>,
   <<<<-MaxIdx>>, NoneArg, NoneArg>>, <<<<MaxIdx>>, <<0>>, <<-1>>>>,
   <<<<MaxIdx>>, <<MaxIdx>>, NoneArg>>, <<NoneArg, <<-1>>, NoneArg>>,
   <<NoneArg, NoneArg, <<0>>>>}

\* mode names in several casings, and strings that are no mode name
ModeStrings ==
  {FULL, <<"F", "U", "L", "L">>, <<"F", "u", "l", "l">>,
   TRAIN, <<"T", "R", "A", "I", "N">>, <<"t", "R", "a", "I", "n">>,
   TEST, <<"T", "E", "S", "T">>, <<"b", "o", "g", "u", "s">>, <<>>,
   <<"t", "r", "a", "i", "n", " ">>, <<"T", "R", "A", "I">>}

\* the result of extract_poses and of the shuffle, when __init__ gets there
Extractions(filepath, split) ==
  LET fps == IF isdir(filepath) THEN search_dir_tree_for_ext(filepath)
             ELSE <<filepath>>
  IN  IF SplitValid(split) /\ fps # <<>> THEN ExtractedPoses(fps)
      ELSE {<<>>}

Construct ==
  \E filepath \in Filepaths, sim \in SimArgs, shuffle \in BOOLEAN,
     split \in Splits, out \in Outputs :
    \E extracted \in Extractions(filepath, split) :
      \E shuffled \in (IF shuffle THEN Shuffles(extracted) ELSE {extracted}) :
        __init__(filepath, sim, shuffle, split, out, shuffled)

Next ==
  \/ Construct
  \/ \E idx \in Indices : GetItem(idx)
  \/ \E sl \in Slices : GetSlice(sl[1], sl[2], sl[3])
  \/ LenCall
  \/ \E m \in ModeStrings : set_mode(m)
  \/ close

Spec == Init /\ [][Next]_vars

\* construction alone, over every percentage pair and longer pose lists
ConstructSplit ==
  \E split \in PercentSplits, n \in 0..MaxSplitPoses :
    __init__("a.glb", None, FALSE, split, <<"rgba">>,
             [i \in 1..n |-> <<i, -i, 0, "a.glb">>])

SplitNext == ConstructSplit

SplitSpec == Init /\ [][SplitNext]_vars

(* ----------------------- vocabulary of the claims --------------------- *)
\* the partition a mode name denotes
Partition(m) ==
  CASE m = FULL -> poses [] m = TRAIN -> train [] m = TEST -> test

ModeNames == {FULL, TRAIN, TEST}

\* the capital of a letter of a mode name
UpperChar(c) ==
  CASE c = "a" -> "A" [] c = "e" -> "E" [] c = "f" -> "F" [] c = "i" -> "I"
    [] c = "l" -> "L" [] c = "n" -> "N" [] c = "r" -> "R" [] c = "s" -> "S"
    [] c = "t" -> "T" [] c = "u" -> "U" [] OTHER -> c

\* m spells name, each letter in either case
IsCasingOf(m, name) ==
  /\ Len(m) = Len(name)
  /\ \A i \in DOMAIN name : m[i] = name[i] \/ m[i] = UpperChar(name[i])

ScalarOp == last.op[1] = "__getitem__"
SliceOp == last.op[1] = "__getitem__slice"

Reconfigured(e) == \E j \in DOMAIN e.calls : e.calls[j][1] = "reconfigure"
Rendered(e) ==
  Cardinality({j \in DOMAIN e.calls : e.calls[j][1] = "get_sensor_observations"})

\* the sensor the documentation gives for an output name
SensorOf(o) ==
  CASE o = "rgba" -> "color_sensor" [] o = "depth" -> "depth_sensor"
    [] o = "semantic" -> "semantic_sensor"

OutputNames == {output[i] : i \in DOMAIN output}
OutputsKnown == OutputNames \subseteq {"rgba", "depth", "semantic"}

(* ------------------------------ claims -------------------------------- *)
\* C1: scene-switch minimization. A successful scalar access whose pose has
\* the scene path of the pose of the immediately preceding successful access
\* issues no reconfigure call, and __getitem__ issues a reconfigure only when
\* the pose's scene path differs from the current-scene pointer.
C1_SceneSwitchMinimization ==
  (ScalarOp \/ SliceOp) =>
    \A i \in DOMAIN last.log :
      LET e == last.log[i]
      IN  /\ (e.status = "ok" /\ e.prev_ok_fp = e.pose[4]) => ~Reconfigured(e)
          /\ Reconfigured(e) => e.pose[4] # e.cur_fp

\* a successful access to a pose of the scene of the previous successful
\* access, in a dataset that holds poses of two scenes
C1_Witness ==
  /\ ScalarOp /\ last.status = "ok"
  /\ last.log[1].prev_ok_fp = last.log[1].pose[4]
  /\ \E i \in DOMAIN poses, j \in DOMAIN poses : poses[i][4] # poses[j][4]

\* C2: for every split pair (a, b) with a + b = 100, construction yields
\* train == full[:k] and test == full[k:] with k = floor(a/100 * len(full)),
\* so train followed by test is full and the lengths add up.
C2_SplitIsFloorCut ==
  (pc = "ready" /\ last.op[1] = "__init__") =>
    LET n == Len(poses)
        k == (last.op[5][1] * n) \div 100
    IN  /\ train = SubSeq(poses, 1, k)
        /\ test = SubSeq(poses, k + 1, n)
        /\ train \o test = poses
        /\ Len(train) + Len(test) = n

\* C3: after close(), every indexed access (scalar or slice) fails with an
\* error; none returns a result.
C3_AccessAfterCloseFails ==
  (pc = "ready" /\ ~has_sim /\ (ScalarOp \/ SliceOp)) => last.status # "ok"

\* C4: set_mode accepts full, train and test in any letter case and stores
\* the same mode for every casing; any other string fails and leaves the mode
\* as it was; the mode is always one of full, train, test.
C4_SetModeCaseInsensitive ==
  /\ [](pc = "ready" => mode \in ModeNames)
  /\ [][last'.op[1] = "set_mode" =>
          LET m == last'.op[2]
          IN  IF \E name \in ModeNames : IsCasingOf(m, name)
              THEN /\ last'.status = "ok"
                   /\ IsCasingOf(m, mode')
              ELSE /\ last'.status = "Exception"
                   /\ mode' = mode]_vars

\* set_mode("TRAIN") has stored the mode train
C4_Witness ==
  /\ last.op = <<"set_mode", <<"T", "R", "A", "I", "N">>>>
  /\ last.status = "ok"
  /\ mode = TRAIN

\* C5: construction fails with a configuration error for every split pair
\* not summing to 100, before anything is built: no simulator is constructed
\* or reconfigured, no scene is located and no pose is extracted.
C5_BadSplitFailsFirst ==
  (last.op[1] = "__init__" /\ last.op[5][1] + last.op[5][2] # 100) =>
    /\ pc = "failed"
    /\ last.status = "Exception"
    /\ last.log = <<>>
    /\ ~has_sim /\ sim_scene = None
    /\ scene_filepaths = <<>> /\ poses = <<>>

\* construction with the split (60, 30) has failed
C5_Witness ==
  /\ pc = "failed"
  /\ last.op[1] = "__init__"
  /\ last.op[5] = <<60, 30>>

\* C6: mode selection only chooses the partition that length and indexing
\* resolve against: after set_mode(m), len equals the length of partition m
\* and scalar access i uses pose i of partition m, while set_mode leaves the
\* pose collection, the partitions, the current-scene pointer and the label
\* map unchanged and makes no simulator call.
C6_ModeOnlySelectsPartition ==
  /\ [](pc = "ready" =>
          /\ __len__ = Len(Partition(mode))
          /\ (ScalarOp \/ SliceOp) =>
               \A i \in DOMAIN last.log :
                 LET e == last.log[i]
                     part == Partition(e.mode)
                 IN  e.status # "IndexError" =>
                       e.pose = part[IF e.idx < 0 THEN Len(part) + e.idx + 1
                                     ELSE e.idx + 1])
  /\ [][last'.op[1] = "set_mode" =>
          /\ UNCHANGED <<poses, train, test, mode_to_data, cur_fp,
                         instance_id_to_name, sim_scene, agent_state,
                         has_sim, sim_closed>>
          /\ last'.log = <<>>
          /\ \A name \in ModeNames :
               IsCasingOf(last'.op[2], name) =>
                 Len(mode_to_data'[mode']) = Len(Partition(name))]_vars

\* set_mode has selected a test partition shorter than the pose collection,
\* after an access that set the current-scene pointer
C6_Witness ==
  /\ last.op[1] = "set_mode" /\ last.status = "ok"
  /\ mode = TEST
  /\ Len(test) < Len(poses)
  /\ cur_fp # None

\* the indices a slice selects, for a partition of length n
SliceIndices(sl, n) ==
  LET start == IF sl[1] = NoneArg THEN 0 ELSE sl[1][1]
      stop == IF sl[2] = NoneArg THEN n ELSE sl[2][1]
      step == IF sl[3] = NoneArg THEN 1 ELSE sl[3][1]
  IN  {i \in (-MaxIdx - 1)..(MaxIdx + 1) :
         /\ step # 0
         /\ (step > 0 => start <= i /\ i < stop /\ (i - start) % step = 0)
         /\ (step < 0 => stop < i /\ i <= start /\ (start - i) % (-step) = 0)}

\* C7: indexing with a slice never fails because of indices beyond the
\* partition; it returns one sample per valid in-range index the slice
\* selects, each produced by one scalar access (one render per index).
C7_SliceNeverIndexError ==
  (pc = "ready" /\ SliceOp) =>
    /\ last.status # "IndexError"
    /\ last.status = "ok" =>
         /\ Len(last.result)
              = Cardinality({i \in SliceIndices(last.op[2], __len__) :
                               InRange(i, __len__)})
         /\ \A i \in DOMAIN last.log : Rendered(last.log[i]) = 1

\* C8: a scalar access whose index is out of range for the active partition
\* fails with an index error before any effect: no reconfigure, no agent
\* state, no observation, and the current-scene pointer is unchanged.
C8_OutOfRangeFailsFirst ==
  [][(pc = "ready" /\ last'.op[1] = "__getitem__"
        /\ (last'.op[2] >= Len(Partition(mode))
              \/ last'.op[2] < -Len(Partition(mode)))) =>
       /\ last'.status = "IndexError"
       /\ last'.log[1].calls = <<>>
       /\ UNCHANGED <<cur_fp, sim_scene, agent_state, has_sim>>]_vars

\* an index error on a non-empty partition of a live extractor
C8_Witness ==
  /\ ScalarOp /\ last.status = "IndexError"
  /\ has_sim
  /\ Len(Partition(mode)) > 0

\* C9: a successful scalar access returns a mapping whose key set is exactly
\* the requested output names, each mapped to the observation of its sensor
\* (rgba -> color_sensor, depth -> depth_sensor, semantic -> semantic_sensor);
\* with a requested name that has no sensor mapping the access fails with a
\* lookup error and returns no mapping.
C9_SampleIsRequestedOutputs ==
  ScalarOp =>
    /\ last.status = "ok" =>
         /\ DOMAIN last.result = OutputNames
         /\ \A o \in OutputNames :
              last.result[o] = [sensor |-> SensorOf(o), scene |-> sim_scene,
                                state |-> agent_state]
    /\ ~OutputsKnown =>
         /\ last.status \in {"KeyError", "IndexError", "AttributeError"}
         /\ Len(last.log[1].calls) > 0 => last.status = "KeyError"

\* a successful access that returned the three outputs
C9_Witness ==
  /\ ScalarOp /\ last.status = "ok"
  /\ Cardinality(DOMAIN last.result) = 3

\* C10: scene coherence. While the simulator is held, the current-scene
\* pointer is unset or equal to the scene loaded in the simulator, so every
\* observation a scalar access returns is rendered from the pose's own scene;
\* the pointer changes only in an access whose pose is of a different scene.
C10_SceneCoherence ==
  /\ []((pc = "ready" /\ has_sim) =>
          /\ cur_fp = None \/ cur_fp = sim_scene
          /\ (ScalarOp \/ SliceOp) =>
               \A i \in DOMAIN last.log :
                 LET e == last.log[i]
                 IN  e.status = "ok" =>
                       \A o \in DOMAIN e.sample : e.sample[o].scene = e.pose[4])
  /\ [][(pc = "ready" /\ cur_fp' # cur_fp) =>
          /\ last'.op[1] \in {"__getitem__", "__getitem__slice"}
          /\ \E i \in DOMAIN last'.log :
               /\ Reconfigured(last'.log[i])
               /\ last'.log[i].pose[4] # last'.log[i].cur_fp]_vars

\* an access through a caller-supplied simulator has switched the scene of a
\* directory dataset
C10_Witness ==
  /\ ScalarOp /\ last.status = "ok"
  /\ Reconfigured(last.log[1])
  /\ last.log[1].cur_fp # None
  /\ cur_fp = sim_scene

====
